---- MODULE Spec2Model ----
(***************************************************************************)
(* Model of pymdoccbor.mdoc.issuer.MdocCborIssuer: construction from a     *)
(* private key, new(...) building and storing the signed envelope, and the *)
(* two serializers dump() and dumps().                                     *)
(*                                                                         *)
(* Python values are modelled as tagged records, one field name per type:  *)
(*   [none], [uint], [nint], [bstr], [tstr], [array], [map], [tag, value]. *)
(* A dict is [map |-> <<k1, v1>>, <<k2, v2>>, ...] in insertion order.     *)
(***************************************************************************)
EXTENDS Integers, Sequences, FiniteSets, TLC

(* ------------------------------ bounds -------------------------------- *)
\* longest batch passed to new(...)
MaxDocs == 3

(* --------------------------- Python values ---------------------------- *)
None == [none |-> TRUE]
UInt(n) == [uint |-> n]
NInt(n) == [nint |-> n]
Bytes(b) == [bstr |-> b]
TStr(s) == [tstr |-> s]
Arr(xs) == [array |-> xs]
Map(kvs) == [map |-> kvs]
CBORTag(n, v) == [tag |-> n, value |-> v]

IsMap(v) == DOMAIN v = {"map"}

HasKey(m, k) == \E p \in 1..Len(m.map) : m.map[p][1] = k

\* m[k] for a dict m that has key k
Get(m, k) == m.map[CHOOSE p \in 1..Len(m.map) : m.map[p][1] = k][2]

RECURSIVE Concat(_)
Concat(ss) == IF ss = <<>> THEN <<>> ELSE Head(ss) \o Concat(Tail(ss))

(* ------------------------- cbor2 / binascii --------------------------- *)
Utf8(s) ==
  CASE s = "version" -> <<118, 101, 114, 115, 105, 111, 110>>
    [] s = "documents" -> <<100, 111, 99, 117, 109, 101, 110, 116, 115>>
    [] s = "status" -> <<115, 116, 97, 116, 117, 115>>
    [] s = "1.0" -> <<49, 46, 48>>
    [] s = "docType" -> <<100, 111, 99, 84, 121, 112, 101>>
    [] s = "issuerSigned" -> <<105, 115, 115, 117, 101, 114, 83, 105, 103, 110, 101, 100>>
    [] s = "nameSpaces" -> <<110, 97, 109, 101, 83, 112, 97, 99, 101, 115>>
    [] s = "issuerAuth" -> <<105, 115, 115, 117, 101, 114, 65, 117, 116, 104>>
    [] s = "deviceSigned" -> <<100, 101, 118, 105, 99, 101, 83, 105, 103, 110, 101, 100>>
    [] s = "mDL" -> <<109, 68, 76>>
    [] s = "eID" -> <<101, 73, 68>>
    [] s = "ns1" -> <<110, 115, 49>>
    [] s = "ns2" -> <<110, 115, 50>>
    [] s = "a" -> <<97>>
    [] s = "b" -> <<98>>

\* initial byte(s) of a CBOR data item: major type and argument
CborHead(major, n) ==
  IF n < 24 THEN <<major * 32 + n>>
  ELSE IF n < 256 THEN <<major * 32 + 24, n>>
  ELSE <<major * 32 + 25, n \div 256, n % 256>>

\* cbor2.dumps: dict keys are written in insertion order
RECURSIVE cbor2_dumps(_)
cbor2_dumps(v) ==
  CASE DOMAIN v = {"none"} -> <<246>>
    [] DOMAIN v = {"uint"} -> CborHead(0, v.uint)
    [] DOMAIN v = {"nint"} -> CborHead(1, (-1) - v.nint)
    [] DOMAIN v = {"bstr"} -> CborHead(2, Len(v.bstr)) \o v.bstr
    [] DOMAIN v = {"tstr"} -> CborHead(3, Len(Utf8(v.tstr))) \o Utf8(v.tstr)
    [] DOMAIN v = {"array"} ->
         CborHead(4, Len(v.array))
           \o Concat([i \in 1..Len(v.array) |-> cbor2_dumps(v.array[i])])
    [] DOMAIN v = {"map"} ->
         CborHead(5, Len(v.map))
           \o Concat([i \in 1..Len(v.map) |->
                        cbor2_dumps(v.map[i][1]) \o cbor2_dumps(v.map[i][2])])
    [] DOMAIN v = {"tag", "value"} -> CborHead(6, v.tag) \o cbor2_dumps(v.value)

HexDigits == <<"0", "1", "2", "3", "4", "5", "6", "7",
               "8", "9", "a", "b", "c", "d", "e", "f">>

\* binascii.hexlify: two lowercase hexadecimal digits per byte
hexlify(b) ==
  [i \in 1..(2 * Len(b)) |->
     IF i % 2 = 1 THEN HexDigits[(b[(i + 1) \div 2] \div 16) + 1]
     ELSE HexDigits[(b[i \div 2] % 16) + 1]]

(* ------------------------------ pycose -------------------------------- *)
\* private key scalars
KeyScalars == {1, 2}

\* the private_key arguments the constructor is called with
KeyInputs ==
  [shape : {"dict", "EC2Key", "CoseKey"}, d : KeyScalars]
    \cup {[shape |-> "NoneType"], [shape |-> "str"]}

\* CoseKey.from_dict
CoseKey_from_dict(k) == [shape |-> "CoseKey", d |-> k.d]

\* EC2Key.encode: the COSE_Key map {1: 2, -1: 1, -4: d}
EC2Key_encode(k) ==
  cbor2_dumps(Map(<< <<UInt(1), UInt(2)>>, <<NInt(-1), UInt(1)>>,
                     <<NInt(-4), Bytes(<<k.d>>)>> >>))

\* CoseKey.decode of an encoded EC2 key
CoseKey_decode(b) == [shape |-> "CoseKey", d |-> b[Len(b)]]

(* ------------------------ MSO issuance collaborator ------------------- *)
\* attribute data: namespace -> attribute -> value
D1 == Map(<< <<TStr("ns1"), Map(<< <<TStr("a"), UInt(1)>> >>)>> >>)
D2 == Map(<< <<TStr("ns2"), Map(<< <<TStr("b"), UInt(2)>>, <<TStr("a"), UInt(3)>> >>)>>,
             <<TStr("ns1"), Map(<< <<TStr("a"), UInt(1)>> >>)>> >>)
DataSet == {D1, D2}

\* the collaborator's randomness during one call of new(...)
Draws == {0, 1}

\* the collaborator's behaviour during one call of new(...) on n documents:
\* its random seed, and the document it fails on (0: none)
CollBehaviours(n) == [seed : Draws, failAt : 0..n]

\* the random draw the collaborator makes for the i-th document
Draw(coll, i) == (coll.seed + i - 1) % Cardinality(Draws)

\* MsoIssuer.disclosure_map: namespace -> digestID -> {attribute: value};
\* the digest IDs depend on the collaborator's random draw r
DisclosureMap(data, r) ==
  Map([p \in 1..Len(data.map) |->
    <<data.map[p][1],
      Map([j \in 1..Len(data.map[p][2].map) |->
        <<UInt(r + Len(data.map[p][2].map) - j),
          Map(<<data.map[p][2].map[j]>>)>>])>>])

\* MsoIssuer(data=..., private_key=...)
MsoIssuer(data, private_key, r) ==
  [data |-> data, private_key |-> private_key,
   disclosure_map |-> DisclosureMap(data, r)]

\* the digest IDs of a disclosure map, namespace by namespace
DigestIDs(disclosure_map) ==
  Concat([p \in 1..Len(disclosure_map.map) |->
    [j \in 1..Len(disclosure_map.map[p][2].map) |->
       disclosure_map.map[p][2].map[j][1].uint]])

\* MsoIssuer.sign: COSE_Sign1 over the digests, made with the issuer's key
MsoIssuer_sign(msoi) ==
  [payload |-> DigestIDs(msoi.disclosure_map),
   signature |-> <<msoi.private_key.d>>]

\* Sign1Message.encode: tag 18 on the array [protected (empty byte string),
\* unprotected (empty map), payload, signature]
mso_encode(mso) ==
  <<210, 132, 64, 160>>
    \o CborHead(2, Len(mso.payload)) \o mso.payload
    \o CborHead(2, Len(mso.signature)) \o mso.signature

(* --------------------------- MdocCborIssuer --------------------------- *)
\* a constructor that stores whatever it is given instead of raising
MdocCborIssuer_init_noraise(private_key) ==
  LET withKey(k) == [version |-> "1.0", status |-> 0,
                     private_key |-> k, signed |-> Map(<<>>)]
  IN  IF private_key.shape = "dict"
        THEN [self |-> withKey(CoseKey_from_dict(private_key)), raised |-> "no"]
      ELSE IF private_key.shape = "EC2Key"
        THEN [self |-> withKey(CoseKey_decode(EC2Key_encode(private_key))),
              raised |-> "no"]
      ELSE [self |-> withKey(private_key), raised |-> "no"]

\* a constructor that starts from the envelope of an empty batch
MdocCborIssuer_init_default(private_key) ==
  LET s0 == [version |-> "1.0", status |-> 0]
      withKey(k) == [version |-> s0.version, status |-> s0.status,
                     private_key |-> k,
                     signed |-> Map(<< <<TStr("version"), TStr(s0.version)>>,
                                       <<TStr("documents"), Arr(<<>>)>>,
                                       <<TStr("status"), UInt(s0.status)>> >>)]
  IN  IF private_key.shape = "dict"
        THEN [self |-> withKey(CoseKey_from_dict(private_key)), raised |-> "no"]
      ELSE IF private_key.shape = "EC2Key"
        THEN [self |-> withKey(CoseKey_decode(EC2Key_encode(private_key))),
              raised |-> "no"]
      ELSE IF private_key.shape = "CoseKey"
        THEN [self |-> withKey(private_key), raised |-> "no"]
      ELSE [self |-> s0, raised |-> "MissingPrivateKey"]

\* MdocCborIssuer.__init__: the attributes of the object when the
\* constructor returns or raises
MdocCborIssuer_init(private_key) ==
  LET s0 == [version |-> "1.0", status |-> 0]
      withKey(k) == [version |-> s0.version, status |-> s0.status,
                     private_key |-> k, signed |-> Map(<<>>)]
  IN  IF private_key.shape = "dict"
        THEN [self |-> withKey(CoseKey_from_dict(private_key)), raised |-> "no"]
      ELSE IF private_key.shape = "EC2Key"
        THEN [self |-> withKey(CoseKey_decode(EC2Key_encode(private_key))),
              raised |-> "no"]
      ELSE IF private_key.shape = "CoseKey"
        THEN [self |-> withKey(private_key), raised |-> "no"]
      ELSE [self |-> s0, raised |-> "MissingPrivateKey"]

\* new(): normalisation of devicekeyinfo
NormalizeDeviceKeyInfo(devicekeyinfo) ==
  IF devicekeyinfo.shape = "dict" THEN CoseKey_from_dict(devicekeyinfo)
  ELSE devicekeyinfo

\* a normalisation that fills in a doctype when none is supplied
NormalizeData_default(data, doctype) ==
  IF IsMap(data)
    THEN <<[doctype |-> IF doctype = None THEN TStr("mDL") ELSE doctype,
            data |-> data]>>
    ELSE data.list

\* new(): a dict becomes a one-element list with the doctype parameter
NormalizeData(data, doctype) ==
  IF IsMap(data)
    THEN <<[doctype |-> doctype, data |-> data]>>
    ELSE data.list

\* a comprehension that lists each namespace's entries in reverse
NameSpaces_reversed(disclosure_map) ==
  Map([p \in 1..Len(disclosure_map.map) |->
    <<disclosure_map.map[p][1],
      Arr([j \in 1..Len(disclosure_map.map[p][2].map) |->
        CBORTag(24, Map(<<disclosure_map.map[p][2].map[
                            Len(disclosure_map.map[p][2].map) + 1 - j]>>))])>>])

\* new(): the nameSpaces comprehension over msoi.disclosure_map
NameSpaces(disclosure_map) ==
  Map([p \in 1..Len(disclosure_map.map) |->
    <<disclosure_map.map[p][1],
      Arr([j \in 1..Len(disclosure_map.map[p][2].map) |->
        CBORTag(24, Map(<<disclosure_map.map[p][2].map[j]>>))])>>])

\* a document that carries the device key in a deviceSigned field
Document_deviceSigned(self, devicekeyinfo, doc, c) ==
  LET msoi == MsoIssuer(doc.data, self.private_key, c)
      mso == MsoIssuer_sign(msoi)
  IN  Map(<< <<TStr("docType"), doc.doctype>>,
             <<TStr("issuerSigned"),
               Map(<< <<TStr("nameSpaces"), NameSpaces(msoi.disclosure_map)>>,
                      <<TStr("issuerAuth"), Bytes(mso_encode(mso))>> >>)>>,
             <<TStr("deviceSigned"), Bytes(<<devicekeyinfo.d>>)>> >>)

\* new(): the document built by one iteration of the loop, c being the
\* collaborator's draw for this document
Document(self, devicekeyinfo, doc, c) ==
  LET msoi == MsoIssuer(doc.data, self.private_key, c)
      mso == MsoIssuer_sign(msoi)
  IN  Map(<< <<TStr("docType"), doc.doctype>>,
             <<TStr("issuerSigned"),
               Map(<< <<TStr("nameSpaces"), NameSpaces(msoi.disclosure_map)>>,
                      <<TStr("issuerAuth"), Bytes(mso_encode(mso))>> >>)>> >>)

\* a loop that puts each new document in front of the earlier ones
RECURSIVE ForLoop_prepend(_, _, _, _, _, _)
ForLoop_prepend(self, devicekeyinfo, data, coll, i, documents) ==
  IF i > Len(data) THEN [raised |-> FALSE, documents |-> documents]
  ELSE IF coll.failAt = i THEN [raised |-> TRUE, documents |-> documents]
  ELSE ForLoop_prepend(self, devicekeyinfo, data, coll, i + 1,
         <<Document(self, devicekeyinfo, data[i], Draw(coll, i))>> \o documents)

\* new(): the for loop from element i on.  A failure of the collaborator
\* on element coll.failAt leaves the loop with the exception.
RECURSIVE ForLoop(_, _, _, _, _, _)
ForLoop(self, devicekeyinfo, data, coll, i, documents) ==
  IF i > Len(data) THEN [raised |-> FALSE, documents |-> documents]
  ELSE IF coll.failAt = i THEN [raised |-> TRUE, documents |-> documents]
  ELSE ForLoop(self, devicekeyinfo, data, coll, i + 1,
               Append(documents,
                      Document(self, devicekeyinfo, data[i], Draw(coll, i))))

\* a new that starts from the documents of the stored envelope
new_accumulate(self, data, devicekeyinfo, doctype, coll) ==
  LET dki == NormalizeDeviceKeyInfo(devicekeyinfo)
      batch == NormalizeData(data, doctype)
      before == IF HasKey(self.signed, TStr("documents"))
                  THEN Get(self.signed, TStr("documents")).array ELSE <<>>
      loop == ForLoop(self, dki, batch, coll, 1, before)
      signed == Map(<< <<TStr("version"), TStr(self.version)>>,
                       <<TStr("documents"), Arr(loop.documents)>>,
                       <<TStr("status"), UInt(self.status)>> >>)
  IN  IF loop.raised
        THEN [self |-> self, raised |-> TRUE, value |-> None]
        ELSE [self |-> [self EXCEPT !.signed = signed], raised |-> FALSE,
              value |-> signed]

\* a new that stores the documents built so far when the collaborator fails
new_partial(self, data, devicekeyinfo, doctype, coll) ==
  LET dki == NormalizeDeviceKeyInfo(devicekeyinfo)
      batch == NormalizeData(data, doctype)
      loop == ForLoop(self, dki, batch, coll, 1, <<>>)
      signed == Map(<< <<TStr("version"), TStr(self.version)>>,
                       <<TStr("documents"), Arr(loop.documents)>>,
                       <<TStr("status"), UInt(self.status)>> >>)
  IN  IF loop.raised
        THEN [self |-> [self EXCEPT !.signed = signed], raised |-> TRUE,
              value |-> None]
        ELSE [self |-> [self EXCEPT !.signed = signed], raised |-> FALSE,
              value |-> signed]

\* a new that keeps the device key as the issuer's key
new_rekey(self, data, devicekeyinfo, doctype, coll) ==
  LET dki == NormalizeDeviceKeyInfo(devicekeyinfo)
      batch == NormalizeData(data, doctype)
      loop == ForLoop(self, dki, batch, coll, 1, <<>>)
      signed == Map(<< <<TStr("version"), TStr(self.version)>>,
                       <<TStr("documents"), Arr(loop.documents)>>,
                       <<TStr("status"), UInt(self.status)>> >>)
  IN  IF loop.raised
        THEN [self |-> self, raised |-> TRUE, value |-> None]
        ELSE [self |-> [self EXCEPT !.signed = signed, !.private_key = dki],
              raised |-> FALSE, value |-> signed]

\* MdocCborIssuer.new
new(self, data, devicekeyinfo, doctype, coll) ==
  LET dki == NormalizeDeviceKeyInfo(devicekeyinfo)
      batch == NormalizeData(data, doctype)
      loop == ForLoop(self, dki, batch, coll, 1, <<>>)
      signed == Map(<< <<TStr("version"), TStr(self.version)>>,
                       <<TStr("documents"), Arr(loop.documents)>>,
                       <<TStr("status"), UInt(self.status)>> >>)
  IN  IF loop.raised
        THEN [self |-> self, raised |-> TRUE, value |-> None]
        ELSE [self |-> [self EXCEPT !.signed = signed], raised |-> FALSE,
              value |-> signed]

\* a dump that hands the envelope over and forgets it
dump_consume(self) ==
  [self |-> [self EXCEPT !.signed = Map(<<>>)],
   value |-> cbor2_dumps(self.signed)]

\* MdocCborIssuer.dump
dump(self) == [self |-> self, value |-> cbor2_dumps(self.signed)]

\* MdocCborIssuer.dumps
dumps(self) == [self |-> self, value |-> hexlify(cbor2_dumps(self.signed))]

(* ------------------------------- state -------------------------------- *)
VARIABLES
  pc,     \* "start": constructor not yet run; "ready"; "failed"
  self,   \* the attributes of the issuer object
  ret,    \* what the last call returned or raised
  last,   \* the last call: its name, arguments and collaborator behaviour
  alt,    \* envelopes the last new yields under every other devicekeyinfo
  issued  \* a call of new has succeeded

vars == <<pc, self, ret, last, alt, issued>>

Nothing == [nothing |-> TRUE]

Doctypes == {TStr("mDL"), TStr("eID")}
DeviceKeyInfos == {[shape |-> "dict", d |-> 3], [shape |-> "CoseKey", d |-> 4]}
\* the {doctype, data} elements of a list passed to new
DocInputs == {[doctype |-> TStr("mDL"), data |-> D1],
              [doctype |-> TStr("eID"), data |-> D2]}
Batches == UNION {[1..n -> DocInputs] : n \in 0..MaxDocs}
\* the (data, doctype) arguments of new: a bare mapping with or without a
\* doctype, or a list of documents
NewArgs ==
  [data : DataSet, doctype : Doctypes \cup {None}]
    \cup [data : {[list |-> b] : b \in Batches}, doctype : {None}]

Documents(signed) == Get(signed, TStr("documents")).array

DocCount(signed) ==
  IF HasKey(signed, TStr("documents")) THEN Len(Documents(signed)) ELSE 0

Init ==
  /\ pc = "start"
  /\ self = Nothing
  /\ ret = Nothing
  /\ last = [op |-> "none"]
  /\ alt = {}
  /\ issued = FALSE

Construct ==
  /\ pc = "start"
  /\ \E private_key \in KeyInputs :
       \E r \in {MdocCborIssuer_init(private_key)} :
         /\ self' = r.self
         /\ pc' = IF r.raised = "no" THEN "ready" ELSE "failed"
         /\ ret' = IF r.raised = "no" THEN Nothing ELSE [raise |-> r.raised]
         /\ last' = [op |-> "init", private_key |-> private_key]
  /\ UNCHANGED <<alt, issued>>

New ==
  /\ pc = "ready"
  /\ \E a \in NewArgs, devicekeyinfo \in DeviceKeyInfos :
       \E coll \in CollBehaviours(Len(NormalizeData(a.data, a.doctype))) :
         \E r \in {new(self, a.data, devicekeyinfo, a.doctype, coll)} :
           /\ self' = r.self
           /\ ret' = IF r.raised THEN [raise |-> "CollaboratorError"]
                     ELSE [value |-> r.value]
           /\ last' = IF r.raised
                        THEN [op |-> "new", raised |-> TRUE,
                              first |-> coll.failAt = 1,
                              final |-> coll.failAt =
                                          Len(NormalizeData(a.data, a.doctype))]
                        ELSE [op |-> "new", raised |-> FALSE,
                              data |-> a.data, doctype |-> a.doctype,
                              coll |-> coll,
                              replaced |-> DocCount(self.signed) > 0]
           /\ alt' = IF r.raised THEN {}
                     ELSE {new(self, a.data, d, a.doctype, coll).self.signed :
                             d \in DeviceKeyInfos \ {devicekeyinfo}}
           /\ issued' = (issued \/ ~r.raised)
  /\ pc' = pc

Dump ==
  /\ pc = "ready"
  /\ \E r \in {dump(self)} :
       /\ self' = r.self
       /\ ret' = [value |-> r.value]
  /\ last' = [op |-> "dump", again |-> last.op = "dump"]
  /\ alt' = {}
  /\ UNCHANGED <<pc, issued>>

Dumps ==
  /\ pc = "ready"
  /\ \E r \in {dumps(self)} :
       /\ self' = r.self
       /\ ret' = [value |-> r.value]
  /\ last' = [op |-> "dumps"]
  /\ alt' = {}
  /\ UNCHANGED <<pc, issued>>

Next == Construct \/ New \/ Dump \/ Dumps

Spec == Init /\ [][Next]_vars

(* ---------------------------- properties ------------------------------ *)
\* the last call was a new(...) that returned
OkNew == pc = "ready" /\ last.op = "new" /\ ~last.raised

\* the list new(...) iterated over in the last call
InputLen == IF IsMap(last.data) THEN 1 ELSE Len(last.data.list)

IssuerSigned(document) == Get(document, TStr("issuerSigned"))

\* C1: after a successful new(B), whatever envelope it replaced, the stored
\* envelope has exactly len(B) documents and is the envelope the call returned.
C1_Replacement ==
  OkNew => /\ DocCount(self.signed) = InputLen
           /\ ret = [value |-> self.signed]

C1_Witness ==
  /\ OkNew
  /\ last.replaced
  /\ DocCount(self.signed) >= 1

\* C2: a new(...) in which the collaborator fails raises to the caller and
\* leaves every attribute of the issuer as it was; the stored envelope changes
\* only in a new(...) that returned, and then it holds one complete document
\* per element of the batch.
C2_Atomic ==
  [][ /\ (last'.op = "new" /\ last'.raised) =>
           (self' = self /\ ret' = [raise |-> "CollaboratorError"])
      /\ (pc = "ready" /\ self'.signed # self.signed) =>
           /\ last'.op = "new" /\ ~last'.raised
           /\ Len(Documents(self'.signed)) =
                (IF IsMap(last'.data) THEN 1 ELSE Len(last'.data.list))
           /\ \A i \in 1..Len(Documents(self'.signed)) :
                /\ HasKey(Documents(self'.signed)[i], TStr("docType"))
                /\ HasKey(IssuerSigned(Documents(self'.signed)[i]),
                          TStr("nameSpaces"))
                /\ HasKey(IssuerSigned(Documents(self'.signed)[i]),
                          TStr("issuerAuth")) ]_vars

\* the collaborator failed on a middle document, an envelope being stored
C2_Witness ==
  /\ pc = "ready"
  /\ last.op = "new" /\ last.raised
  /\ ~last.first /\ ~last.final
  /\ DocCount(self.signed) >= 1

\* C3: for a list of N documents the envelope has N documents and the i-th
\* one carries the i-th element's doctype; an empty list gives no documents.
C3_Order ==
  (OkNew /\ ~IsMap(last.data)) =>
    /\ Len(Documents(self.signed)) = Len(last.data.list)
    /\ \A i \in 1..Len(last.data.list) :
         Get(Documents(self.signed)[i], TStr("docType")) = last.data.list[i].doctype

C3_Witness ==
  /\ OkNew /\ ~IsMap(last.data)
  /\ Len(last.data.list) = MaxDocs
  /\ last.data.list[1].doctype # last.data.list[2].doctype

\* C4: dump() and dumps() leave every attribute of the issuer unchanged, and
\* a dump() right after a dump() returns the same bytes.
C4_ReadOnly ==
  [][ /\ (last'.op \in {"dump", "dumps"}) => self' = self
      /\ (last.op = "dump" /\ last'.op = "dump") => ret' = ret ]_vars

\* a second dump() in a row of an envelope with documents
C4_Witness ==
  /\ last.op = "dump" /\ last.again
  /\ DocCount(self.signed) >= 1
  /\ ret = [value |-> cbor2_dumps(self.signed)]

DefaultEnvelope ==
  Map(<< <<TStr("version"), TStr("1.0")>>, <<TStr("documents"), Arr(<<>>)>>,
         <<TStr("status"), UInt(0)>> >>)

\* C5 as stated: before any successful new(...), dump() and dumps() return
\* the serialization of {version: "1.0", documents: [], status: 0}.
C5_DefaultEnvelope ==
  (pc = "ready" /\ ~issued) =>
    /\ last.op = "dump" => ret = [value |-> cbor2_dumps(DefaultEnvelope)]
    /\ last.op = "dumps" => ret = [value |-> hexlify(cbor2_dumps(DefaultEnvelope))]

\* C5 amended: before any successful new(...), dump() and dumps() do not fail
\* and return the serialization of the empty mapping the constructor stored:
\* the single byte 0xa0, in hexadecimal "a0".
C5_EmptyMapping ==
  (pc = "ready" /\ ~issued) =>
    /\ last.op = "dump" => ret = [value |-> <<160>>]
    /\ last.op = "dumps" => ret = [value |-> <<"a", "0">>]

C5_Witness ==
  /\ pc = "ready" /\ ~issued
  /\ last.op = "dumps"
  /\ ret = [value |-> <<"a", "0">>]

AcceptedShapes == {"dict", "EC2Key", "CoseKey"}

\* C6: the constructor raises MissingPrivateKey exactly for a key of none of
\* the three accepted shapes, and then the object has neither a stored
\* envelope nor a signing key; for an accepted shape it stores the canonical
\* key with the scalar of the key given.
C6_Construction ==
  last.op = "init" =>
    /\ (ret = [raise |-> "MissingPrivateKey"])
         <=> (last.private_key.shape \notin AcceptedShapes)
    /\ (last.private_key.shape \notin AcceptedShapes) =>
         /\ pc = "failed"
         /\ "signed" \notin DOMAIN self
         /\ "private_key" \notin DOMAIN self
    /\ (last.private_key.shape \in AcceptedShapes) =>
         /\ pc = "ready"
         /\ self.private_key = [shape |-> "CoseKey", d |-> last.private_key.d]
         /\ self.signed = Map(<<>>)

C6_Witness ==
  /\ last.op = "init"
  /\ last.private_key.shape = "NoneType"
  /\ pc = "failed"
  /\ ret = [raise |-> "MissingPrivateKey"]

\* the disclosure map the collaborator produced for the i-th document of the
\* last call
InputDoc(i) ==
  IF IsMap(last.data) THEN [doctype |-> last.doctype, data |-> last.data]
  ELSE last.data.list[i]

DisclosedFor(i) == DisclosureMap(InputDoc(i).data, Draw(last.coll, i))

NameSpacesOf(document) == Get(IssuerSigned(document), TStr("nameSpaces"))

\* C7: nameSpaces has the disclosure map's namespaces in its order, and under
\* each the tag-24 singleton {digestID: value} of every digest, in its order.
C7_Disclosure ==
  OkNew =>
    \A i \in 1..Len(Documents(self.signed)) :
      LET ns == NameSpacesOf(Documents(self.signed)[i]).map
          dm == DisclosedFor(i).map
      IN  /\ Len(ns) = Len(dm)
          /\ \A p \in 1..Len(dm) :
               /\ ns[p][1] = dm[p][1]
               /\ Len(ns[p][2].array) = Len(dm[p][2].map)
               /\ \A j \in 1..Len(dm[p][2].map) :
                    ns[p][2].array[j] =
                      [tag |-> 24,
                       value |-> [map |-> <<<<dm[p][2].map[j][1],
                                              dm[p][2].map[j][2]>>>>]]

\* a document with two namespaces, not in sorted order, the first of them
\* with two digests whose IDs are not ascending
C7_Witness ==
  /\ OkNew
  /\ \E i \in 1..Len(Documents(self.signed)) :
       LET ns == NameSpacesOf(Documents(self.signed)[i]).map
       IN  /\ Len(ns) = 2
           /\ ns[1][1] = TStr("ns2") /\ ns[2][1] = TStr("ns1")
           /\ Len(ns[1][2].array) = 2
           /\ ns[1][2].array[1].value.map[1][1].uint
                > ns[1][2].array[2].value.map[1][1].uint

\* C8: a bare mapping gives exactly one document, whose docType is the
\* doctype parameter, None when none was supplied.
C8_SingleDocument ==
  (OkNew /\ IsMap(last.data)) =>
    /\ Len(Documents(self.signed)) = 1
    /\ Get(Documents(self.signed)[1], TStr("docType")) = last.doctype

C8_Witness ==
  /\ OkNew /\ IsMap(last.data)
  /\ last.doctype = None
  /\ Get(Documents(self.signed)[1], TStr("docType")) = None

\* C9: the envelope new(...) returns is the one it returns under every other
\* devicekeyinfo, and no document has a deviceSigned field.
C9_DeviceKeyUnused ==
  OkNew =>
    /\ alt = {self.signed}
    /\ ret = [value |-> self.signed]
    /\ \A i \in 1..Len(Documents(self.signed)) :
         /\ ~HasKey(Documents(self.signed)[i], TStr("deviceSigned"))
         /\ Len(Documents(self.signed)[i].map) = 2

C9_Witness ==
  /\ OkNew
  /\ alt # {}
  /\ DocCount(self.signed) >= 2

\* the key a document's issuerAuth was signed with
SignerOf(document) ==
  LET auth == Get(IssuerSigned(document), TStr("issuerAuth")).bstr
  IN  auth[Len(auth)]

\* C10: no call changes the stored signing key, and every document of the
\* stored envelope is signed with it.
C10_KeyImmutable ==
  /\ [][pc = "ready" => self'.private_key = self.private_key]_vars
  /\ [](pc = "ready" =>
          \A i \in 1..DocCount(self.signed) :
            SignerOf(Documents(self.signed)[i]) = self.private_key.d)

\* a failing call, an envelope of two or more documents being stored
C10_Witness ==
  /\ pc = "ready"
  /\ last.op = "new" /\ last.raised
  /\ DocCount(self.signed) >= 2

====
